---------------------------- MODULE Spec2Model ----------------------------
(***************************************************************************)
(* Model of tensorflow_tts/bin/train_melgan.py: the MelGAN trainer         *)
(* (MelganTrainer), the sequence collater and the interruption handler of  *)
(* main().                                                                 *)
(*                                                                         *)
(* Two specifications live in this module.                                 *)
(*   Spec          the training process: main() has constructed the        *)
(*                 trainer and calls trainer.run(); every statement of     *)
(*                 _train_step / _eval_epoch that changes state is one     *)
(*                 step, so that an asynchronous KeyboardInterrupt and an  *)
(*                 exception can land between any two of them.             *)
(*   CollaterSpec  the pure function collater(), applied to inputs drawn   *)
(*                 from bounded sets.                                      *)
(* The base class GanBasedTrainer (run, _train_epoch, save_checkpoint,     *)
(* _write_to_tensorboard) is not part of the sources at hand; its parts    *)
(* are modelled from the design document.                                  *)
(***************************************************************************)
EXTENDS Integers, Sequences, FiniteSets, TLC

(***************************************************************************)
(* Bounds of the model.  The configuration values live in a yaml file that *)
(* is read at start-up; they are inputs of the program, bounded here.      *)
(***************************************************************************)
TrainMaxSteps == 3
\* config["train_max_steps"]
LogIntervalSteps == 2
\* config["log_interval_steps"]
SaveIntervalSteps == 2
\* interval of the periodic checkpoint
NumSaveIntermediateResults == 1
\* config["num_save_intermediate_results"]
LambdaFeatMatch == 2
\* config["lambda_feat_match"]
TrainLen == 2
\* batches in one pass over the training data
EvalLen == 2
\* batches in one pass over the evaluation data
MaxInitSteps == 1
\* largest value of steps the trainer is constructed / resumed with
MaxLoss == 1
\* scalar losses are drawn from 0 .. MaxLoss
MaxAudioLen == 6
\* collater: longest waveform
MaxMelLen == 3
\* collater: longest feature sequence
MaxHop == 2
\* collater: largest hop_size
MaxBatchMaxSteps == 4
\* collater: largest batch_max_steps

VARIABLES
    pc,              \* position of the main thread
    error,           \* the exception that ended the process, or "none"
    steps,           \* self.steps
    epochs,          \* self.epochs
    finish_train,    \* self.finish_train
    is_generator_mixed_precision,
    is_discriminator_mixed_precision,
    train_metrics,   \* self.train_metrics: name -> [total, count]
    eval_metrics,    \* self.eval_metrics:  name -> [total, count]
    gen_applied,     \* number of gen_optimizer.apply_gradients calls
    dis_applied,     \* number of dis_optimizer.apply_gradients calls
    gen_grad_of,     \* the local variable the generator gradients were taken of
    dis_grad_of,     \* the local variable the discriminator gradients were taken of
    train_idx,       \* batches of the current training pass already consumed
    eval_idx,        \* batches of the current evaluation pass already consumed
    summary,         \* the summary sink: last record written per stage, and how many
    ckpt,            \* the checkpoint store: last snapshot saved, or NoCkpt
    main_saves,      \* number of save_checkpoint calls made by main()'s handler
    hist,            \* history: bookkeeping of calls, used by the properties only
    c_pc,            \* collater: "ready" before the call, "done" after ("idle" in Spec)
    c_in,            \* collater: the arguments of the call
    c_out            \* collater: the result of the call

trainerVars == <<pc, error, steps, epochs, finish_train,
                 is_generator_mixed_precision, is_discriminator_mixed_precision,
                 train_metrics, eval_metrics, gen_applied, dis_applied,
                 gen_grad_of, dis_grad_of, train_idx, eval_idx, summary, ckpt,
                 main_saves, hist>>
collaterVars == <<c_pc, c_in, c_out>>
vars == <<trainerVars, collaterVars>>

---------------------------------------------------------------------------
(***************************************************************************)
(* Metrics: tf.keras.metrics.Mean keeps a total and a count.               *)
(***************************************************************************)
list_metrics_name ==
    {"adversarial_loss", "fm_loss", "gen_loss", "real_loss", "fake_loss", "dis_loss"}

ZeroMean == [total |-> 0, count |-> 0]

init_train_eval_metrics == [name \in list_metrics_name |-> ZeroMean]

update_state(metrics, name, value) ==
    [metrics EXCEPT ![name] = [total |-> @.total + value, count |-> @.count + 1]]

reset_states_train_Partial(metrics) ==
    [name \in DOMAIN metrics |->
        IF name = "dis_loss" THEN metrics[name] ELSE ZeroMean]

reset_states_train(metrics) == [name \in DOMAIN metrics |-> ZeroMean]

reset_states_eval(metrics) == [name \in DOMAIN metrics |-> ZeroMean]

\* the summary sink keeps, per stage, the record written last and the number of writes
NoRecord == [metrics |-> init_train_eval_metrics, step |-> -1]

write_to_tensorboard(sink, metrics, stage, step) ==
    [sink EXCEPT ![stage] = [last |-> [metrics |-> metrics, step |-> step],
                             writes |-> @.writes + 1]]

NoCkpt == [steps |-> -1, epochs |-> -1, gen |-> -1, dis |-> -1]

save_checkpoint ==
    [steps |-> steps, epochs |-> epochs, gen |-> gen_applied, dis |-> dis_applied]

\* The scalar losses of a batch are inputs.  One forward pass yields two of them;
\* the pair is drawn as (x, MaxLoss - x), which keeps the two apart without squaring
\* the number of states.
Losses == 0 .. MaxLoss

Other(loss) == MaxLoss - loss

---------------------------------------------------------------------------
(***************************************************************************)
(* Local variables of the two optimisation steps.  scaled_*_loss is        *)
(* assigned only under "if self.is_*_mixed_precision".                     *)
(***************************************************************************)
Defined(name, mixed_precision) ==
    CASE name = "gen_loss" -> TRUE
      [] name = "dis_loss" -> TRUE
      [] name = "scaled_gen_loss" -> mixed_precision
      [] name = "scaled_dis_loss" -> mixed_precision

\* lines 135-139: the variable handed to g_tape.gradient
GenGradientTarget(mixed_precision) ==
    IF mixed_precision THEN "scaled_gen_loss" ELSE "gen_loss"

\* lines 166-170: the variable handed to d_tape.gradient
DisGradientTarget(mixed_precision) ==
    IF mixed_precision THEN "scaled_dis_loss" ELSE "scaled_dis_loss"

apply_gradients_Twice(n) == n + 2

apply_gradients(n) == n + 1

IncSteps_Skip(s) == s + 2

IncSteps(s) == s + 1

check_train_finish(s, finished) ==
    IF s >= TrainMaxSteps THEN TRUE ELSE finished

---------------------------------------------------------------------------
(***************************************************************************)
(* The training process.                                                   *)
(***************************************************************************)
RunPcs == {"train_loop", "gen", "dis", "inc", "tqdm", "chk", "log", "log_reset",
           "save_chk", "fin_chk", "eval_loop", "export", "eval_reset"}

NoResult == [err |-> "none", audio |-> <<>>, mel |-> <<>>,
             cropped |-> FALSE, start_frame |-> 0, padded |-> <<>>]

CollaterIdle ==
    /\ c_pc = "idle"
    /\ c_in = [audio |-> <<>>, mel |-> <<>>, batch_max_steps |-> <<>>, hop_size |-> 1]
    /\ c_out = NoResult

Init ==
    /\ pc = "train_loop"
    /\ error = "none"
    /\ steps \in 0 .. MaxInitSteps
    /\ epochs = 0
    /\ finish_train = FALSE
    /\ is_generator_mixed_precision \in BOOLEAN
    /\ is_discriminator_mixed_precision \in BOOLEAN
    /\ train_metrics = reset_states_train(init_train_eval_metrics)
    /\ eval_metrics = reset_states_eval(init_train_eval_metrics)
    /\ gen_applied = 0
    /\ dis_applied = 0
    /\ gen_grad_of = "none"
    /\ dis_grad_of = "none"
    /\ train_idx = 0
    /\ eval_idx = 0
    /\ summary = [stage \in {"train", "eval"} |-> [last |-> NoRecord, writes |-> 0]]
    /\ ckpt = NoCkpt
    /\ main_saves = 0
    /\ hist = [s0 |-> steps,            \* steps at the start of run()
               entry |-> steps,         \* steps at the entry of the last _train_step
               train_call |-> "none",   \* last _train_step: running / returned / raised
               returned |-> 0,          \* _train_step calls that returned
               incremented |-> 0,       \* _train_step calls that executed steps += 1
               eval_call |-> "none",    \* last _eval_epoch: running / returned / raised
               eval_seen |-> 0,         \* batches the last _eval_epoch evaluated
               export_failed |-> FALSE, \* an export raised
               calls |-> 0,             \* _train_step calls entered
               events |-> <<>>,         \* what the last _train_step did, in order
               y_hat |-> 0,             \* the call whose generator pass made y_hat
               dis_input |-> 0]         \* the call whose y_hat the discriminator got
    /\ CollaterIdle

\* _train_epoch: the next batch of the pass, or the end of the pass
\* (epochs += 1, then an evaluation pass)
TrainEpochNext ==
    /\ pc = "train_loop"
    /\ IF train_idx < TrainLen
       THEN /\ pc' = "gen"
            /\ train_idx' = train_idx + 1
            /\ hist' = [hist EXCEPT !.entry = steps, !.train_call = "running",
                                    !.calls = @ + 1, !.events = <<>>]
            /\ UNCHANGED <<epochs, eval_idx>>
       ELSE /\ pc' = "eval_loop"
            /\ epochs' = epochs + 1
            /\ train_idx' = 0
            /\ eval_idx' = 0
            /\ hist' = [hist EXCEPT !.eval_call = "running", !.eval_seen = 0]
    /\ UNCHANGED <<error, steps, finish_train, is_generator_mixed_precision,
                   is_discriminator_mixed_precision, train_metrics, eval_metrics,
                   gen_applied, dis_applied, gen_grad_of, dis_grad_of, summary,
                   ckpt, main_saves, collaterVars>>

\* _one_step_generator
OneStepGenerator ==
    /\ pc = "gen"
    /\ \E adv_loss \in Losses :
         LET fm_loss == Other(adv_loss)
             gen_loss == adv_loss + LambdaFeatMatch * fm_loss
             target == GenGradientTarget(is_generator_mixed_precision)
         IN  IF Defined(target, is_generator_mixed_precision)
             THEN /\ gen_grad_of' = target
                  /\ gen_applied' = apply_gradients(gen_applied)
                  /\ train_metrics' =
                        update_state(update_state(update_state(train_metrics,
                           "adversarial_loss", adv_loss), "fm_loss", fm_loss),
                           "gen_loss", gen_loss)
                  /\ pc' = "dis"
                  /\ hist' = [hist EXCEPT
                        !.events = @ \o <<"gen_forward", "gen_apply">>,
                        !.y_hat = hist.calls]
                  /\ UNCHANGED error
             ELSE /\ gen_grad_of' = target
                  /\ error' = "UnboundLocalError"
                  /\ pc' = "crashed"
                  /\ hist' = [hist EXCEPT !.train_call = "raised",
                        !.events = @ \o <<"gen_forward">>, !.y_hat = hist.calls]
                  /\ UNCHANGED <<gen_applied, train_metrics>>
    /\ UNCHANGED <<steps, epochs, finish_train, is_generator_mixed_precision,
                   is_discriminator_mixed_precision, eval_metrics, dis_applied,
                   dis_grad_of, train_idx, eval_idx, summary, ckpt, main_saves,
                   collaterVars>>

\* _one_step_discriminator
OneStepDiscriminator ==
    /\ pc = "dis"
    /\ \E real_loss \in Losses :
         LET fake_loss == Other(real_loss)
             dis_loss == real_loss + fake_loss
             target == DisGradientTarget(is_discriminator_mixed_precision)
         IN  IF Defined(target, is_discriminator_mixed_precision)
             THEN /\ dis_grad_of' = target
                  /\ dis_applied' = apply_gradients(dis_applied)
                  /\ train_metrics' =
                        update_state(update_state(update_state(train_metrics,
                           "real_loss", real_loss), "fake_loss", fake_loss),
                           "dis_loss", dis_loss)
                  /\ pc' = "inc"
                  /\ hist' = [hist EXCEPT
                        !.events = @ \o <<"dis_forward", "dis_apply">>,
                        !.dis_input = hist.y_hat]
                  /\ UNCHANGED error
             ELSE /\ dis_grad_of' = target
                  /\ error' = "UnboundLocalError"
                  /\ pc' = "crashed"
                  /\ hist' = [hist EXCEPT !.train_call = "raised",
                        !.events = @ \o <<"dis_forward">>, !.dis_input = hist.y_hat]
                  /\ UNCHANGED <<dis_applied, train_metrics>>
    /\ UNCHANGED <<steps, epochs, finish_train, is_generator_mixed_precision,
                   is_discriminator_mixed_precision, eval_metrics, gen_applied,
                   gen_grad_of, train_idx, eval_idx, summary, ckpt, main_saves,
                   collaterVars>>

\* _train_step, line 104: self.steps += 1
StepsIncrement ==
    /\ pc = "inc"
    /\ steps' = IncSteps(steps)
    /\ pc' = "tqdm"
    /\ hist' = [hist EXCEPT !.incremented = @ + 1, !.events = @ \o <<"steps_inc">>]
    /\ UNCHANGED <<error, epochs, finish_train, is_generator_mixed_precision,
                   is_discriminator_mixed_precision, train_metrics, eval_metrics,
                   gen_applied, dis_applied, gen_grad_of, dis_grad_of, train_idx,
                   eval_idx, summary, ckpt, main_saves, collaterVars>>

\* _train_step, line 105: self.tqdm.update(1)
TqdmUpdate ==
    /\ pc = "tqdm"
    /\ pc' = "chk"
    /\ UNCHANGED <<error, steps, epochs, finish_train, is_generator_mixed_precision,
                   is_discriminator_mixed_precision, train_metrics, eval_metrics,
                   gen_applied, dis_applied, gen_grad_of, dis_grad_of, train_idx,
                   eval_idx, summary, ckpt, main_saves, hist, collaterVars>>

\* _train_step, line 106: self._check_train_finish(), then _train_step returns
CheckTrainFinish ==
    /\ pc = "chk"
    /\ finish_train' = check_train_finish(steps, finish_train)
    /\ pc' = "log"
    /\ hist' = [hist EXCEPT !.train_call = "returned", !.returned = @ + 1,
                            !.events = @ \o <<"finish_check">>]
    /\ UNCHANGED <<error, steps, epochs, is_generator_mixed_precision,
                   is_discriminator_mixed_precision, train_metrics, eval_metrics,
                   gen_applied, dis_applied, gen_grad_of, dis_grad_of, train_idx,
                   eval_idx, summary, ckpt, main_saves, collaterVars>>

\* _check_log_interval, lines 248-252: on the interval, log and write the train metrics
CheckLogInterval ==
    /\ pc = "log"
    /\ IF steps % LogIntervalSteps = 0
       THEN /\ summary' = write_to_tensorboard(summary, train_metrics, "train", steps)
            /\ pc' = "log_reset"
       ELSE /\ pc' = "save_chk"
            /\ UNCHANGED summary
    /\ UNCHANGED <<hist, error, steps, epochs, finish_train, is_generator_mixed_precision,
                   is_discriminator_mixed_precision, train_metrics, eval_metrics,
                   gen_applied, dis_applied, gen_grad_of, dis_grad_of, train_idx,
                   eval_idx, ckpt, main_saves, collaterVars>>

\* _check_log_interval, line 255: self.reset_states_train()
LogReset ==
    /\ pc = "log_reset"
    /\ train_metrics' = reset_states_train(train_metrics)
    /\ pc' = "save_chk"
    /\ UNCHANGED <<hist, error, steps, epochs, finish_train, is_generator_mixed_precision,
                   is_discriminator_mixed_precision, eval_metrics, gen_applied,
                   dis_applied, gen_grad_of, dis_grad_of, train_idx, eval_idx,
                   summary, ckpt, main_saves, collaterVars>>

\* the periodic checkpoint of the training loop
CheckSaveInterval ==
    /\ pc = "save_chk"
    /\ ckpt' = IF steps % SaveIntervalSteps = 0 THEN save_checkpoint ELSE ckpt
    /\ pc' = "fin_chk"
    /\ UNCHANGED <<error, steps, epochs, finish_train, is_generator_mixed_precision,
                   is_discriminator_mixed_precision, train_metrics, eval_metrics,
                   gen_applied, dis_applied, gen_grad_of, dis_grad_of, train_idx,
                   eval_idx, summary, main_saves, hist, collaterVars>>

\* the training loop ends once finish_train is set
CheckFinish ==
    /\ pc = "fin_chk"
    /\ pc' = IF finish_train THEN "done" ELSE "train_loop"
    /\ UNCHANGED <<error, steps, epochs, finish_train, is_generator_mixed_precision,
                   is_discriminator_mixed_precision, train_metrics, eval_metrics,
                   gen_applied, dis_applied, gen_grad_of, dis_grad_of, train_idx,
                   eval_idx, summary, ckpt, main_saves, hist, collaterVars>>

eval_step_updates_NoDisLoss(metrics, adv_loss, fm_loss, gen_loss, real_loss, fake_loss, dis_loss) ==
    LET m1 == update_state(metrics, "adversarial_loss", adv_loss)
        m2 == update_state(m1, "fm_loss", fm_loss)
        m3 == update_state(m2, "gen_loss", gen_loss)
        m4 == update_state(m3, "real_loss", real_loss)
    IN  update_state(m4, "fake_loss", fake_loss)

\* _eval_step, lines 238-244: one sample for each of the six eval metrics
eval_step_updates(metrics, adv_loss, fm_loss, gen_loss, real_loss, fake_loss, dis_loss) ==
    LET m1 == update_state(metrics, "adversarial_loss", adv_loss)
        m2 == update_state(m1, "fm_loss", fm_loss)
        m3 == update_state(m2, "gen_loss", gen_loss)
        m4 == update_state(m3, "real_loss", real_loss)
        m5 == update_state(m4, "fake_loss", fake_loss)
    IN  update_state(m5, "dis_loss", dis_loss)

\* _eval_epoch, lines 183-187: the next evaluation batch goes through _eval_step
EvalStep ==
    /\ pc = "eval_loop"
    /\ eval_idx < EvalLen
    /\ \E adv_loss \in Losses, real_loss \in Losses :
         LET fm_loss == Other(adv_loss)
             fake_loss == Other(real_loss)
             gen_loss == adv_loss + LambdaFeatMatch * fm_loss
             dis_loss == real_loss + fake_loss
         IN  eval_metrics' = eval_step_updates(eval_metrics, adv_loss, fm_loss,
                                               gen_loss, real_loss, fake_loss, dis_loss)
    /\ eval_idx' = eval_idx + 1
    /\ hist' = [hist EXCEPT !.eval_seen = @ + 1]
    /\ pc' = IF eval_idx' <= NumSaveIntermediateResults THEN "export" ELSE "eval_loop"
    /\ UNCHANGED <<error, steps, epochs, finish_train, is_generator_mixed_precision,
                   is_discriminator_mixed_precision, train_metrics, gen_applied,
                   dis_applied, gen_grad_of, dis_grad_of, train_idx, summary, ckpt,
                   main_saves, collaterVars>>

\* generate_and_save_intermediate_result writes its plot and its wav files
ExportOk ==
    /\ pc = "export"
    /\ pc' = "eval_loop"
    /\ UNCHANGED <<error, steps, epochs, finish_train, is_generator_mixed_precision,
                   is_discriminator_mixed_precision, train_metrics, eval_metrics,
                   gen_applied, dis_applied, gen_grad_of, dis_grad_of, train_idx,
                   eval_idx, summary, ckpt, main_saves, hist, collaterVars>>

\* generate_and_save_intermediate_result raises (os.makedirs, plt.savefig, sf.write);
\* nothing between line 189 and main() catches it
ExportRaises ==
    /\ pc = "export"
    /\ pc' = "crashed"
    /\ error' = "ExportError"
    /\ hist' = [hist EXCEPT !.eval_call = "raised", !.export_failed = TRUE]
    /\ UNCHANGED <<steps, epochs, finish_train, is_generator_mixed_precision,
                   is_discriminator_mixed_precision, train_metrics, eval_metrics,
                   gen_applied, dis_applied, gen_grad_of, dis_grad_of, train_idx,
                   eval_idx, summary, ckpt, main_saves, collaterVars>>

\* _eval_epoch, lines 191-199: the data is exhausted; log the means, write them
EvalWrite ==
    /\ pc = "eval_loop"
    /\ eval_idx >= EvalLen
    /\ summary' = write_to_tensorboard(summary, eval_metrics, "eval", steps)
    /\ pc' = "eval_reset"
    /\ UNCHANGED <<error, steps, epochs, finish_train, is_generator_mixed_precision,
                   is_discriminator_mixed_precision, train_metrics, eval_metrics,
                   gen_applied, dis_applied, gen_grad_of, dis_grad_of, train_idx,
                   eval_idx, ckpt, main_saves, hist, collaterVars>>

\* _eval_epoch, line 202: self.reset_states_eval(), then _eval_epoch returns
EvalReset ==
    /\ pc = "eval_reset"
    /\ eval_metrics' = reset_states_eval(eval_metrics)
    /\ pc' = "train_loop"
    /\ hist' = [hist EXCEPT !.eval_call = "returned"]
    /\ UNCHANGED <<error, steps, epochs, finish_train, is_generator_mixed_precision,
                   is_discriminator_mixed_precision, train_metrics, gen_applied,
                   dis_applied, gen_grad_of, dis_grad_of, train_idx, eval_idx,
                   summary, ckpt, main_saves, collaterVars>>

\* main(), lines 523-527: a KeyboardInterrupt raised while run() executes is caught,
\* the handler saves a checkpoint, and main() returns
KeyboardInterrupt ==
    /\ pc \in RunPcs
    /\ ckpt' = save_checkpoint
    /\ main_saves' = main_saves + 1
    /\ error' = "KeyboardInterrupt"
    /\ pc' = "exit"
    /\ UNCHANGED <<steps, epochs, finish_train, is_generator_mixed_precision,
                   is_discriminator_mixed_precision, train_metrics, eval_metrics,
                   gen_applied, dis_applied, gen_grad_of, dis_grad_of, train_idx,
                   eval_idx, summary, hist, collaterVars>>

Next ==
    \/ TrainEpochNext
    \/ OneStepGenerator
    \/ OneStepDiscriminator
    \/ StepsIncrement
    \/ TqdmUpdate
    \/ CheckTrainFinish
    \/ CheckLogInterval
    \/ LogReset
    \/ CheckSaveInterval
    \/ CheckFinish
    \/ EvalStep
    \/ ExportOk
    \/ ExportRaises
    \/ EvalWrite
    \/ EvalReset
    \/ KeyboardInterrupt

Spec == Init /\ [][Next]_vars

---------------------------------------------------------------------------
(***************************************************************************)
(* The collater.  A waveform is a sequence of samples, a feature sequence  *)
(* a sequence of frames; the inputs carry the values 1, 2, ... so that a   *)
(* sample of the input is told from the 0 that tf.pad appends.             *)
(* batch_max_steps is <<>> for None and <<n>> for the integer n.           *)
(***************************************************************************)
Zeros(n) == [i \in 1 .. n |-> 0]

\* tf.pad(x, [[0, n]]): n zeros on the right; a negative n is an InvalidArgumentError
Pad(x, n) ==
    IF n < 0 THEN [err |-> "InvalidArgumentError", val |-> <<>>]
             ELSE [err |-> "none", val |-> x \o Zeros(n)]

\* x[a : b] for 0 <= a, 0 <= b: the slice is clipped to the sequence
Slice(x, a, b) ==
    LET hi == IF b < Len(x) THEN b ELSE Len(x)
    IN  IF a >= hi THEN <<>> ELSE SubSeq(x, a + 1, hi)

\* lines 315-316
BatchMaxSteps(audio, batch_max_steps, hop_size) ==
    IF batch_max_steps = <<>>
    THEN (Len(audio) \div hop_size) * hop_size
    ELSE batch_max_steps[1]

\* line 317
BatchMaxFrames(audio, batch_max_steps, hop_size) ==
    BatchMaxSteps(audio, batch_max_steps, hop_size) \div hop_size

\* lines 318-319
AlignAudio(audio, mel, hop_size) ==
    IF Len(audio) < Len(mel) * hop_size
    THEN Pad(audio, Len(mel) * hop_size - Len(audio)).val
    ELSE audio

IntervalEnd_Inclusive(mel_len, batch_max_frames) == mel_len - batch_max_frames + 2

\* line 324
IntervalEnd(mel_len, batch_max_frames) == mel_len - batch_max_frames

\* tf.random.uniform(shape=[], minval, maxval, dtype=int32): an integer of [minval, maxval)
RandomUniform(minval, maxval) == minval .. (maxval - 1)

\* line 329
StartStep(start_frame, hop_size) == start_frame * hop_size

\* lines 305-336, with the value tf.random.uniform returns as start_frame
collater(audio, mel, batch_max_steps, hop_size, start_frame) ==
    LET steps_  == BatchMaxSteps(audio, batch_max_steps, hop_size)
        frames_ == BatchMaxFrames(audio, batch_max_steps, hop_size)
        audio_  == AlignAudio(audio, mel, hop_size)
    IN  IF Len(mel) > frames_
        THEN LET start_step == StartStep(start_frame, hop_size)
             IN  [err |-> "none",
                  audio |-> Slice(audio_, start_step, start_step + steps_),
                  mel |-> Slice(mel, start_frame, start_frame + frames_),
                  cropped |-> TRUE, start_frame |-> start_frame, padded |-> audio_]
        ELSE LET a == Pad(audio_, steps_ - Len(audio_))
                 m == Pad(mel, frames_ - Len(mel))
             IN  IF a.err # "none" \/ m.err # "none"
                 THEN [err |-> "InvalidArgumentError", audio |-> <<>>, mel |-> <<>>,
                       cropped |-> FALSE, start_frame |-> 0, padded |-> audio_]
                 ELSE [err |-> "none", audio |-> a.val, mel |-> m.val,
                       cropped |-> FALSE, start_frame |-> 0, padded |-> audio_]

TrainerIdle ==
    /\ pc = "idle"
    /\ error = "none"
    /\ steps = 0
    /\ epochs = 0
    /\ finish_train = FALSE
    /\ is_generator_mixed_precision = FALSE
    /\ is_discriminator_mixed_precision = FALSE
    /\ train_metrics = init_train_eval_metrics
    /\ eval_metrics = init_train_eval_metrics
    /\ gen_applied = 0
    /\ dis_applied = 0
    /\ gen_grad_of = "none"
    /\ dis_grad_of = "none"
    /\ train_idx = 0
    /\ eval_idx = 0
    /\ summary = [stage \in {"train", "eval"} |-> [last |-> NoRecord, writes |-> 0]]
    /\ ckpt = NoCkpt
    /\ main_saves = 0
    /\ hist = [s0 |-> 0, entry |-> 0, train_call |-> "none", returned |-> 0,
               incremented |-> 0, eval_call |-> "none", eval_seen |-> 0,
               export_failed |-> FALSE, calls |-> 0, events |-> <<>>,
               y_hat |-> 0, dis_input |-> 0]

CollaterInit ==
    /\ TrainerIdle
    /\ c_pc = "ready"
    /\ \E audio_len \in 1 .. MaxAudioLen, mel_len \in 1 .. MaxMelLen,
          hop_size \in 1 .. MaxHop,
          batch_max_steps \in {<<>>} \cup {<<n>> : n \in 1 .. MaxBatchMaxSteps} :
         c_in = [audio |-> [i \in 1 .. audio_len |-> i],
                 mel |-> [i \in 1 .. mel_len |-> i],
                 batch_max_steps |-> batch_max_steps,
                 hop_size |-> hop_size]
    /\ c_out = NoResult

\* the dataset's map_fn calls collater(audio, mel) on one pair
CollaterCall ==
    /\ c_pc = "ready"
    /\ LET frames_ == BatchMaxFrames(c_in.audio, c_in.batch_max_steps, c_in.hop_size)
           draws == IF Len(c_in.mel) > frames_
                    THEN RandomUniform(0, IntervalEnd(Len(c_in.mel), frames_))
                    ELSE {0}
       IN  \E start_frame \in draws :
             c_out' = collater(c_in.audio, c_in.mel, c_in.batch_max_steps,
                               c_in.hop_size, start_frame)
    /\ c_pc' = "done"
    /\ UNCHANGED <<c_in, trainerVars>>

CollaterNext == CollaterCall

CollaterSpec == CollaterInit /\ [][CollaterNext]_vars

---------------------------------------------------------------------------
(***************************************************************************)
(* Properties.                                                             *)
(***************************************************************************)

\* C1: every _train_step call that has ended increased steps by exactly one, and
\* finish_train is true after it exactly if steps has reached train_max_steps.
\* (A call ends by returning or by raising; an interrupted process is not counted.)
C1_TrainStepAdvancesSteps ==
    hist.train_call \in {"returned", "raised"} =>
        /\ steps = hist.entry + 1
        /\ finish_train = (steps >= TrainMaxSteps)

\* C2: without mixed precision the discriminator gradients are taken of dis_loss,
\* the step refers to no variable of the mixed-precision path, and the optimizer
\* is applied.
C2_DiscriminatorGradientOfDisLoss ==
    (~is_discriminator_mixed_precision /\ dis_grad_of # "none") =>
        /\ dis_grad_of = "dis_loss"
        /\ error # "UnboundLocalError"
        /\ dis_applied >= 1

InLen == Len(c_in.audio)

InFrames == Len(c_in.mel)

InHop == c_in.hop_size

\* the target lengths as the claims state them
TargetSteps ==
    IF c_in.batch_max_steps = <<>> THEN (InLen \div InHop) * InHop
                                   ELSE c_in.batch_max_steps[1]

TargetFrames == TargetSteps \div InHop

\* the waveform after right-padding to the length of the features
PaddedInput ==
    [i \in 1 .. (IF InLen < InFrames * InHop THEN InFrames * InHop ELSE InLen) |->
        IF i <= InLen THEN c_in.audio[i] ELSE 0]

\* C5: with a given batch_max_steps, len(waveform) >= len(mel) * hop_size and
\* len(mel) <= batch_max_frames, collater returns batch_max_steps samples and
\* batch_max_frames frames: the input first, zeros after it.
C5_PadToTargetLengths ==
    (/\ c_pc = "done"
     /\ c_in.batch_max_steps # <<>>
     /\ InLen >= InFrames * InHop
     /\ InFrames <= TargetFrames) =>
        /\ c_out.err = "none"
        /\ Len(c_out.audio) = TargetSteps
        /\ Len(c_out.mel) = TargetFrames
        /\ \A i \in 1 .. Len(c_out.audio) :
             c_out.audio[i] = (IF i <= InLen THEN c_in.audio[i] ELSE 0)
        /\ \A i \in 1 .. Len(c_out.mel) :
             c_out.mel[i] = (IF i <= InFrames THEN c_in.mel[i] ELSE 0)

\* C6: with len(mel) > batch_max_frames, for every start_frame drawn the result is
\* mel[start_frame : start_frame + batch_max_frames] and
\* audio[start_frame * hop_size : start_frame * hop_size + batch_max_steps], both
\* inside the right-padded input, of batch_max_frames frames and batch_max_steps
\* samples.
C6_CropWindowInsideInput ==
    (c_pc = "done" /\ InFrames > TargetFrames) =>
        LET f == c_out.start_frame
        IN  /\ c_out.err = "none"
            /\ c_out.cropped
            /\ f >= 0
            /\ f < InFrames - TargetFrames
            /\ f + TargetFrames <= InFrames
            /\ f * InHop + TargetSteps <= Len(PaddedInput)
            /\ Len(c_out.mel) = TargetFrames
            /\ Len(c_out.audio) = TargetSteps
            /\ \A i \in 1 .. TargetFrames : c_out.mel[i] = c_in.mel[f + i]
            /\ \A i \in 1 .. TargetSteps : c_out.audio[i] = PaddedInput[f * InHop + i]

\* C6 witness: a window that starts after the first frame and ends in the padding
C6_CropsPaddedInput ==
    /\ c_pc = "done"
    /\ InFrames > TargetFrames
    /\ c_out.cropped
    /\ c_out.start_frame >= 1
    /\ InLen < InFrames * InHop
    /\ TargetSteps >= 2
    /\ c_out.audio[TargetSteps] = 0
    /\ c_out.audio[1] # 0

\* C7: with batch_max_steps = None collater returns without error for every pair
\* of lengths, the waveform has floor(L_a / hop_size) * hop_size samples, no window
\* is drawn and every input frame is kept in order.
C7_EvalVariantKeepsEverything ==
    (c_pc = "done" /\ c_in.batch_max_steps = <<>>) =>
        /\ c_out.err = "none"
        /\ ~c_out.cropped
        /\ Len(c_out.audio) = (InLen \div InHop) * InHop
        /\ Len(c_out.mel) >= InFrames
        /\ \A i \in 1 .. InFrames : c_out.mel[i] = c_in.mel[i]

\* C8: every _eval_epoch that has ended consumed every batch of the evaluation
\* data, then wrote the means of exactly these batches and reset all eval metrics.
C8_EvalEpochCompletes ==
    hist.eval_call \in {"returned", "raised"} =>
        /\ hist.eval_seen = EvalLen
        /\ summary["eval"].writes = epochs
        /\ \A name \in list_metrics_name :
             /\ summary["eval"].last.metrics[name].count = EvalLen
             /\ eval_metrics[name] = ZeroMean

\* C9: a _check_log_interval on a multiple of log_interval_steps writes the train
\* metrics as they are, and only then resets all six; off the interval it writes
\* nothing and changes no train metric.
C9_LogIntervalWritesThenResets ==
    [][/\ (pc = "log" /\ pc' # "exit" /\ steps % LogIntervalSteps = 0) =>
            /\ pc' = "log_reset"
            /\ summary'["train"].last = [metrics |-> train_metrics, step |-> steps]
            /\ summary'["train"].writes = summary["train"].writes + 1
            /\ summary'["eval"] = summary["eval"]
            /\ train_metrics' = train_metrics
       /\ (pc = "log_reset" /\ pc' # "exit") =>
            /\ pc' = "save_chk"
            /\ \A name \in list_metrics_name : train_metrics'[name] = ZeroMean
            /\ summary' = summary
       /\ (pc = "log" /\ pc' # "exit" /\ steps % LogIntervalSteps # 0) =>
            /\ pc' = "save_chk"
            /\ summary' = summary
            /\ train_metrics' = train_metrics
      ]_vars

\* C9 witness: the interval was hit, non-empty metrics were written and are now reset
C9_WrittenAndReset ==
    /\ pc = "save_chk"
    /\ steps % LogIntervalSteps = 0
    /\ summary["train"].writes >= 1
    /\ summary["train"].last.step = steps
    /\ \A name \in list_metrics_name :
         /\ summary["train"].last.metrics[name].count >= 1
         /\ train_metrics[name] = ZeroMean
    /\ summary["train"].last.metrics["gen_loss"].total >= 1

\* C10: an export that raises does not end the evaluation pass or the training
\* loop: the process does not stop on the export's exception.
C10_ExportFailureTolerated ==
    hist.export_failed =>
        /\ error # "ExportError"
        /\ pc # "crashed"

\* the order of a whole _train_step
TrainStepOrder ==
    <<"gen_forward", "gen_apply", "dis_forward", "dis_apply", "steps_inc",
      "finish_check">>

\* C11: every _train_step that has ended did, in this order and once each: the
\* generator pass making y_hat, the generator apply, the discriminator pass on
\* that y_hat, the discriminator apply, steps += 1, the finish check; so each
\* optimizer has been applied once per call, whatever the flags, and the applies
\* of two calls never interleave.
C11_TrainStepEventOrder ==
    /\ hist.train_call \in {"returned", "raised"} =>
        /\ hist.events = TrainStepOrder
        /\ hist.y_hat = hist.calls
        /\ hist.dis_input = hist.y_hat
        /\ gen_applied = hist.calls
        /\ dis_applied = hist.calls
    /\ dis_applied <= gen_applied
    /\ gen_applied <= dis_applied + 1

\* C12: an _eval_step adds one sample to each of the six eval metrics and changes
\* neither the updates applied by the two optimizers, nor steps, epochs,
\* finish_train or a train metric; no step of an evaluation pass applies gradients.
C12_EvalStepIsInference ==
    [][/\ (pc = "eval_loop" /\ eval_idx < EvalLen /\ pc' # "exit") =>
            /\ \A name \in list_metrics_name :
                 /\ eval_metrics'[name].count = eval_metrics[name].count + 1
                 /\ eval_metrics'[name].total >= eval_metrics[name].total
            /\ eval_metrics'["gen_loss"].total - eval_metrics["gen_loss"].total =
                 (eval_metrics'["adversarial_loss"].total
                     - eval_metrics["adversarial_loss"].total)
                 + LambdaFeatMatch * (eval_metrics'["fm_loss"].total
                                         - eval_metrics["fm_loss"].total)
            /\ eval_metrics'["dis_loss"].total - eval_metrics["dis_loss"].total =
                 (eval_metrics'["real_loss"].total - eval_metrics["real_loss"].total)
                 + (eval_metrics'["fake_loss"].total - eval_metrics["fake_loss"].total)
            /\ UNCHANGED <<gen_applied, dis_applied, gen_grad_of, dis_grad_of, steps,
                           epochs, finish_train, train_metrics>>
       /\ (pc \in {"eval_loop", "export", "eval_reset"}) =>
            UNCHANGED <<gen_applied, dis_applied, gen_grad_of, dis_grad_of>>
      ]_vars

\* C12 witness: an evaluation pass has evaluated all its batches after some training
C12_EvalPassEvaluated ==
    /\ pc = "eval_loop"
    /\ eval_idx = EvalLen
    /\ \A name \in list_metrics_name : eval_metrics[name].count = EvalLen
    /\ gen_applied >= 1
    /\ dis_applied = gen_applied
    /\ steps = hist.s0 + gen_applied
=============================================================================
